---- MODULE Spec2Model ----
(***************************************************************************)
(* gpio2mqtt: a bridge between GPIO pins and an MQTT bus.                  *)
(*                                                                         *)
(*   main.rs   main          wires two bounded channels, starts the input  *)
(*                           thread and the output thread, runs the bus    *)
(*                           session, then joins the threads               *)
(*             start_mqtt    the publish task and the bus event loop       *)
(*             setup_inputs  the input thread (edge or heartbeat timeout)  *)
(*             setup_outputs the output thread (applies command batches)   *)
(*   data.rs   HighLowToggle the coercion of a JSON value                  *)
(*                                                                         *)
(* The runtime is tokio's current_thread flavour: the bus session (the     *)
(* main task) and the publish task share one OS thread and interleave only *)
(* at an await that is pending; the input and the output thread are OS     *)
(* threads of their own.                                                   *)
(***************************************************************************)
EXTENDS Integers, Sequences, FiniteSets, TLC

\* ------------------------------------------------------------------ bounds

\* The edges the environment produces on the input pins are counted up to
\* this many.
MaxEdges == 2
\* Telemetry messages carry a ghost identity, counted modulo IdMod.
IdMod == 3
\* The integers the coercion is tried on are -MaxNum .. MaxNum.
MaxNum == 40

\* ------------------------------------------------------- program constants

\* mpsc::channel(2) of telemetry messages.
DataChanCap == 2
\* mpsc::channel(2) of command batches.
CmdChanCap == 2
\* AsyncClient::new(mqttoptions, 10): the bus client's request queue.
RequestCap == 10

\* Command batches carry a ghost identity, counted modulo CmdIdMod: between
\* its decoding and the end of its application a batch is in the command
\* channel, in the session's send or in the output thread's hands, so that
\* at most CmdChanCap + 2 batches exist at a time.
CmdIdMod == CmdChanCap + 2

VARIABLES
    inputs,      \* config.inputs: input name -> pin number
    outputs,     \* config.outputs: output name -> [pin, default]
    vres,        \* config: the result of validate(), once it has run
    busy,        \* hardware: the pin numbers gpio.get() fails for
    creds,       \* config.mqtt: username and password are given, or neither
    inLevel,     \* hardware: input pin number -> "Low" | "High"
    outLevel,    \* hardware: output pin number -> "Low" | "High"
    edges,       \* ghost: edges the environment has produced (up to MaxEdges)
    ppc,         \* input thread: "unstarted" | "wait" | "send" | "panicked"
    pevent,      \* input thread: what poll_interrupts returned last
    pdata,       \* input thread: the message in blocking_send (<<>> or <<m>>)
    nextId,      \* ghost: identity of the next telemetry message
    data_ch,     \* telemetry channel (data_tx -> data_rx)
    tpc,         \* publish task: "recv" | "publish"
    tmsg,        \* publish task: the message in publish().await (<<>> or <<m>>)
    pubId,       \* ghost: identity of the last message a publish was issued for
    requests,    \* bus client: how many requests wait in the request queue
    net,         \* bus client: "down" | "up" (eventloop.network)
    subscribed,  \* ghost: a subscribe was issued on the present connection
    retried,     \* ghost: a retryable error has been handled
    refused,     \* ghost: the bus has refused the connection
    everReady,   \* ghost: a subscribe has been issued at least once
    waited,      \* ghost: no poll has returned since the start or the last sleep
    spc,         \* bus session: "poll" | "sleep" | "subscribing" |
                 \*              "forwarding" | "aborted"
    scmd,        \* bus session: the batch in cmd_tx.send().await, if any
    cnext,       \* ghost: identity of the next command batch forwarded
    cmd_ch,      \* command channel (cmd_tx -> cmd_rx)
    apc,         \* output thread: "unstarted" | "recv" | "apply" | "done"
    aset,        \* output thread: entries of the batch not yet visited
    abatch,      \* ghost: the batch the output thread received last
    alevel0,     \* ghost: outLevel when that batch was received
    aid,         \* ghost: identity of the batch the output thread took last
    mpc,         \* main: "config" | "setup_inputs" | "setup_outputs" |
                 \*       "start_mqtt" | "mqtt" | "join_h1" | "exited" |
                 \*       "panicked"
    raw,         \* coercion: the JSON value tried
    res,         \* coercion: the result of try_from(raw)
    des          \* coercion: the result of deserializing raw

cfgVars == <<inputs, outputs, vres, busy, creds>>
pollerVars == <<inLevel, edges, ppc, pevent, pdata, nextId>>
taskVars == <<tpc, tmsg, pubId>>
busVars == <<requests, net, subscribed, retried, refused,
            everReady, waited>>
sessionVars == <<spc, scmd, cnext>>
actuatorVars == <<outLevel, apc, aset, abatch, alevel0, aid>>
coerceVars == <<raw, res, des>>
vars == <<cfgVars, pollerVars, data_ch, taskVars, busVars, sessionVars,
          cmd_ch, actuatorVars, mpc, coerceVars>>

\* ----------------------------------------------------------- configuration

\* config.rs test_valid: in1 = 23, in2 = 24, out1 = 25, out2 = 26; a
\* configuration without inputs is valid too (test_read_toml_minimal).
InputConfigs ==
    { ("in1" :> 23) @@ ("in2" :> 24),
      [n \in {} |-> 0] }

OutputConfigs ==
    { ("out1" :> [pin |-> 25, default |-> "None"]) @@
      ("out2" :> [pin |-> 26, default |-> "Low"]) }

PinNumbers(cfg) == { cfg[n] : n \in DOMAIN cfg }

OutPinNumbers(cfg) == { cfg[n].pin : n \in DOMAIN cfg }

\* Config::validate: no pin number is used twice.
Validate(ins, outs) ==
    /\ \A a, b \in DOMAIN ins : a # b => ins[a] # ins[b]
    /\ \A a, b \in DOMAIN outs : a # b => outs[a].pin # outs[b].pin
    /\ PinNumbers(ins) \cap OutPinNumbers(outs) = {}


\* ------------------------------------------------------------------ values

\* rppal::gpio::Level
Levels == {"Low", "High"}

Invert(level) == IF level = "Low" THEN "High" ELSE "Low"

\* A batch without entries: the JSON object {}.
EmptyBatch == [n \in {} |-> 0]

\* Nothing is held / one value is held.
None == <<>>
Some(x) == <<x>>

\* tokio mpsc: a bounded FIFO.  A send completes only when there is room.
HasRoom(ch, cap) == Len(ch) < cap

\* The bus client's request queue, of which the model keeps the length: the
\* client sends into it (publish, subscribe) and only the event loop, while
\* it is polled on an established connection, takes from it.
QueueHasRoom(n) == n < RequestCap

\* ------------------------------------------------------------ input thread

\* pins_by_id: pin number -> configured name.
PinsById(cfg) ==
    [p \in PinNumbers(cfg) |-> CHOOSE n \in DOMAIN cfg : cfg[n] = p]

\* format!("pin-{}", pin.pin())
SyntheticName(p) ==
    CASE p = 23 -> "pin-23"
      [] p = 24 -> "pin-24"
      [] p = 25 -> "pin-25"
      [] p = 26 -> "pin-26"
      [] OTHER -> "pin-?"

\* A variant that always reports the synthetic name.
EdgeName_Synthetic(cfg, p) == SyntheticName(p)

\* The name an edge on pin p is reported under.
EdgeName(cfg, p) ==
    IF p \in DOMAIN PinsById(cfg) THEN PinsById(cfg)[p] ELSE SyntheticName(p)

\* The message sent for an edge: the one pin, true iff the level is High.
DeltaData(cfg, p, level) == EdgeName(cfg, p) :> (level = "High")

\* A variant that reports only the pins that are high.
SnapshotData_HighOnly(cfg, levels) ==
    [n \in {k \in DOMAIN cfg : levels[cfg[k]] = "High"} |-> TRUE]

\* The message sent on timeout: every input pin, true iff is_high().
SnapshotData(cfg, levels) == [n \in DOMAIN cfg |-> levels[cfg[n]] = "High"]

\* The process is alive: a panic of main ends it and its threads.
Running == mpc # "panicked"

\* poll_interrupts returns Some((pin, level)): an edge on a monitored pin.
PollerEdge ==
    /\ Running
    /\ ppc = "wait"
    /\ \E p \in PinNumbers(inputs) :
         LET level == Invert(inLevel[p]) IN
         /\ inLevel' = [inLevel EXCEPT ![p] = level]
         /\ pevent' = [kind |-> "edge", pin |-> p, level |-> level]
         /\ pdata' = Some([id |-> nextId, data |-> DeltaData(inputs, p, level)])
    /\ edges' = IF edges < MaxEdges THEN edges + 1 ELSE edges
    /\ nextId' = (nextId + 1) % IdMod
    /\ ppc' = "send"
    /\ UNCHANGED <<cfgVars, data_ch, taskVars, busVars, sessionVars, cmd_ch,
                   actuatorVars, mpc, coerceVars>>

\* poll_interrupts returns None: no edge within the 10 seconds.
PollerTimeout ==
    /\ Running
    /\ ppc = "wait"
    /\ pevent' = [kind |-> "timeout", pin |-> 0, level |-> "Low"]
    /\ pdata' = Some([id |-> nextId, data |-> SnapshotData(inputs, inLevel)])
    /\ nextId' = (nextId + 1) % IdMod
    /\ ppc' = "send"
    /\ UNCHANGED <<cfgVars, inLevel, edges, data_ch, taskVars, busVars,
                   sessionVars, cmd_ch, actuatorVars, mpc, coerceVars>>

\* poll_interrupts returns Err: the unwrap panics and the thread ends.
PollerPollError ==
    /\ Running
    /\ ppc = "wait"
    /\ ppc' = "panicked"
    /\ UNCHANGED <<cfgVars, inLevel, edges, pevent, pdata, nextId, data_ch,
                   taskVars, busVars, sessionVars, cmd_ch, actuatorVars, mpc,
                   coerceVars>>

\* data_tx.blocking_send(data): blocks while the channel is full.  The
\* receiver lives in the publish task, which is never dropped while the
\* process runs, so the send never fails.
PollerSend ==
    /\ Running
    /\ ppc = "send"
    /\ HasRoom(data_ch, DataChanCap)
    /\ data_ch' = data_ch \o pdata
    /\ pdata' = None
    /\ ppc' = "wait"
    /\ UNCHANGED <<cfgVars, inLevel, edges, pevent, nextId, taskVars, busVars,
                   sessionVars, cmd_ch, actuatorVars, mpc, coerceVars>>

\* ------------------------------------------------------------ publish task

\* The runtime thread is inside start_mqtt, suspended at an await: only then
\* does the publish task run.  After start_mqtt returns, main blocks the
\* runtime thread in h1.join().
TaskMayRun == mpc = "mqtt"

\* A variant that takes the newest message.
TaskTake_Newest(ch) == ch[Len(ch)]

\* The message the publish task takes from the channel.
TaskTake(ch) == Head(ch)

\* What is left in the channel after it.
TaskLeave(ch) == Tail(ch)

\* data_rx.recv().await, then loop_client.publish(..).await: the request is
\* queued at once when the request queue has room, and the task waits in
\* publish otherwise.
TaskRecvPublish ==
    /\ TaskMayRun
    /\ tpc = "recv"
    /\ data_ch # <<>>
    /\ LET m == TaskTake(data_ch) IN
         /\ data_ch' = TaskLeave(data_ch)
         /\ IF QueueHasRoom(requests)
              THEN /\ requests' = requests + 1
                   /\ pubId' = m.id
                   /\ UNCHANGED <<tpc, tmsg>>
              ELSE /\ tpc' = "publish"
                   /\ tmsg' = Some(m)
                   /\ UNCHANGED <<requests, pubId>>
    /\ UNCHANGED <<cfgVars, pollerVars, net, subscribed, retried, refused,
                   everReady, waited, sessionVars, cmd_ch, actuatorVars, mpc,
                   coerceVars>>

\* A sender waiting on the full request queue completes once there is room:
\* the publish task in publish().await, the session in subscribe().await.
RequestSendResume ==
    /\ TaskMayRun
    /\ QueueHasRoom(requests)
    /\ \E who \in {"task", "session"} :
         IF who = "task"
           THEN /\ tpc = "publish"
                /\ requests' = requests + 1
                /\ pubId' = tmsg[1].id
                /\ tmsg' = None
                /\ tpc' = "recv"
                /\ UNCHANGED <<subscribed, everReady, spc>>
           ELSE /\ spc = "subscribing"
                /\ requests' = requests + 1
                /\ subscribed' = TRUE
                /\ everReady' = TRUE
                /\ spc' = "poll"
                /\ UNCHANGED <<tpc, tmsg, pubId>>
    /\ UNCHANGED <<cfgVars, pollerVars, data_ch, net, retried, refused,
                   waited, scmd, cnext, cmd_ch, actuatorVars, mpc,
                   coerceVars>>

\* ------------------------------------------------------------- bus session

\* The session is in eventloop.poll().await.
Polling == mpc = "mqtt" /\ spc = "poll"

\* A variant that subscribes after the first connect only.
PollConnAck_FirstOnly ==
    /\ Polling
    /\ net = "down"
    /\ net' = "up"
    /\ waited' = FALSE
    /\ IF everReady
         THEN UNCHANGED <<requests, subscribed, everReady, spc>>
         ELSE IF QueueHasRoom(requests)
                THEN /\ requests' = requests + 1
                     /\ subscribed' = TRUE
                     /\ everReady' = TRUE
                     /\ spc' = "poll"
                ELSE /\ spc' = "subscribing"
                     /\ UNCHANGED <<requests, subscribed, everReady>>
    /\ UNCHANGED <<cfgVars, pollerVars, data_ch, taskVars, retried, refused,
                   scmd, cnext, cmd_ch, actuatorVars, mpc, coerceVars>>

\* Ok(Incoming::ConnAck): poll connected (the network was down), and the
\* handler subscribes: client.subscribe(..).await queues the request at once
\* when the request queue has room and waits otherwise.
PollConnAck ==
    /\ Polling
    /\ net = "down"
    /\ net' = "up"
    /\ waited' = FALSE
    /\ IF QueueHasRoom(requests)
         THEN /\ requests' = requests + 1
              /\ subscribed' = TRUE
              /\ everReady' = TRUE
              /\ spc' = "poll"
         ELSE /\ spc' = "subscribing"
              /\ UNCHANGED <<requests, subscribed, everReady>>
    /\ UNCHANGED <<cfgVars, pollerVars, data_ch, taskVars, retried, refused,
                   scmd, cnext, cmd_ch, actuatorVars, mpc, coerceVars>>

\* Where the session goes after a retryable error: the 2 second sleep.
AfterRetryable == "sleep"

\* Err(ConnectionError::Io(_)), while connecting or connected, and
\* Err(MqttState(StateError::Io(e))) with e.kind() == ConnectionAborted, on an
\* established connection: the event loop drops the network, the handler
\* sleeps 2 seconds.
PollRetryableError ==
    /\ Polling
    /\ \E e \in {"Io", "ConnectionAborted"} :
         e = "ConnectionAborted" => net = "up"
    /\ net' = "down"
    /\ subscribed' = FALSE
    /\ retried' = TRUE
    /\ waited' = FALSE
    /\ spc' = AfterRetryable
    /\ UNCHANGED <<cfgVars, pollerVars, data_ch, taskVars, requests, refused,
                   everReady, scmd, cnext, cmd_ch, actuatorVars, mpc,
                   coerceVars>>

\* tokio::time::sleep(Duration::from_secs(2)) is over: back to the loop.
SleepDone ==
    /\ mpc = "mqtt"
    /\ spc = "sleep"
    /\ spc' = "poll"
    /\ waited' = TRUE
    /\ UNCHANGED <<cfgVars, pollerVars, data_ch, taskVars, requests, net,
                   subscribed, retried, refused, everReady, scmd, cnext,
                   cmd_ch, actuatorVars, mpc, coerceVars>>

\* A variant that treats a refusal like a retryable error.
AfterRefused_Retry == [spc |-> "sleep", mpc |-> "mqtt"]

\* Where the session and main go after a refusal: start_mqtt returns Ok(()),
\* main goes on to h1.join() without an await in between.
AfterRefused == [spc |-> "aborted", mpc |-> "join_h1"]

\* Err(ConnectionError::ConnectionRefused(reason)): the broker answered the
\* connect with a refusal.
PollRefused ==
    /\ Polling
    /\ net = "down"
    /\ refused' = TRUE
    /\ waited' = FALSE
    /\ spc' = AfterRefused.spc
    /\ mpc' = AfterRefused.mpc
    /\ UNCHANGED <<cfgVars, pollerVars, data_ch, taskVars, requests, net,
                   subscribed, retried, everReady, scmd, cnext, cmd_ch,
                   actuatorVars, coerceVars>>

\* Ok(Event::Outgoing(_)) for a request the event loop took from the request
\* queue and wrote to the network (the "other" arm: logged).
PollOutgoing ==
    /\ Polling
    /\ net = "up"
    /\ requests > 0
    /\ requests' = requests - 1
    /\ UNCHANGED <<cfgVars, pollerVars, data_ch, taskVars, net, subscribed,
                   retried, refused, everReady, waited, sessionVars, cmd_ch,
                   actuatorVars, mpc, coerceVars>>

\* Any other Err (a timeout, a protocol error, an Io state error of another
\* kind): the event loop drops the network; the "other" arm logs and the loop
\* polls again at once.
PollOtherError ==
    /\ Polling
    /\ net' = "down"
    /\ subscribed' = FALSE
    /\ waited' = FALSE
    /\ UNCHANGED <<cfgVars, pollerVars, data_ch, taskVars, requests, retried,
                   refused, everReady, sessionVars, cmd_ch, actuatorVars, mpc,
                   coerceVars>>

\* -------------------------------------------------------------------- main

\* h1.join().unwrap(): returns only when the input thread has ended, which it
\* does only by panicking; join then gives Err and the unwrap panics.  The
\* h2.join() after it is never reached.
MainJoinInputs ==
    /\ mpc = "join_h1"
    /\ ppc = "panicked"
    /\ mpc' = "panicked"
    /\ UNCHANGED <<cfgVars, pollerVars, data_ch, taskVars, busVars,
                   sessionVars, cmd_ch, actuatorVars, coerceVars>>

\* ----------------------------------------------------------- output thread

\* commands.blocking_recv() returns None: cmd_tx was dropped (start_mqtt
\* returned) and the channel is empty; the thread ends.
ActuatorClosed ==
    /\ Running
    /\ apc = "recv"
    /\ cmd_ch = <<>>
    /\ spc = "aborted"
    /\ apc' = "done"
    /\ UNCHANGED <<cfgVars, pollerVars, data_ch, taskVars, busVars,
                   sessionVars, cmd_ch, outLevel, aset, abatch, alevel0, aid,
                   mpc, coerceVars>>

\* ---------------------------------------------------------------- coercion

\* serde_json::Value.  A Number is PosInt, NegInt or Float (serde_json's N);
\* a Float is kept in tenths.  Arrays and objects are kept without content.
BoolValue(b) == [t |-> "Bool", b |-> b]

IntValue(i) ==
    [t |-> "Number", repr |-> IF i < 0 THEN "NegInt" ELSE "PosInt", n |-> i]

FloatValue(tenths) == [t |-> "Number", repr |-> "Float", n |-> tenths]

StringValue(s) == [t |-> "String", s |-> s]

NullValue == [t |-> "Null"]

ArrayValue == [t |-> "Array"]

ObjectValue == [t |-> "Object"]

\* Number::as_i64: the integer of a PosInt or NegInt, None for a Float.
AsI64(value) ==
    IF value.repr \in {"PosInt", "NegInt"} THEN Some(value.n) ELSE None

Ok(directive) == [ok |-> TRUE, v |-> directive]

Err(what) == [ok |-> FALSE, v |-> what]

\* A variant that takes every non-zero integer for High.
TryFromNumber_Truthy(value) ==
    CASE AsI64(value) = Some(0) -> Ok("Low")
      [] AsI64(value) # None -> Ok("High")
      [] OTHER -> Err("number")

\* The arm of try_from for Value::Number.
TryFromNumber(value) ==
    CASE AsI64(value) = Some(0) -> Ok("Low")
      [] AsI64(value) = Some(1) -> Ok("High")
      [] OTHER -> Err("number")

\* The arm of try_from for Value::String.
TryFromString(s) ==
    CASE s \in {"off", "low"} -> Ok("Low")
      [] s \in {"on", "high"} -> Ok("High")
      [] s = "toggle" -> Ok("Toggle")
      [] OTHER -> Err("string")

\* impl TryFrom<serde_json::Value> for HighLowToggle
TryFrom(value) ==
    CASE value.t = "Bool" -> IF value.b THEN Ok("High") ELSE Ok("Low")
      [] value.t = "Number" -> TryFromNumber(value)
      [] value.t = "String" -> TryFromString(value.s)
      [] OTHER -> Err("type")

\* A variant of visit_str with the strings try_from takes.
VisitStr_NoDigits(s) ==
    CASE s \in {"high", "on"} -> Ok("High")
      [] s \in {"low", "off"} -> Ok("Low")
      [] s = "toggle" -> Ok("Toggle")
      [] OTHER -> Err("unknown_variant")

\* HighLowToggleVisitor::visit_str
VisitStr(s) ==
    CASE s \in {"high", "on", "1"} -> Ok("High")
      [] s \in {"low", "off", "0"} -> Ok("Low")
      [] s = "toggle" -> Ok("Toggle")
      [] OTHER -> Err("unknown_variant")

\* HighLowToggleVisitor::visit_bool
VisitBool(b) == IF b THEN Ok("High") ELSE Ok("Low")

\* HighLowToggleVisitor::visit_i64
VisitI64(i) ==
    CASE i = 1 -> Ok("High")
      [] i = 0 -> Ok("Low")
      [] OTHER -> Err("unknown_variant")

\* HighLowToggleVisitor::visit_u64
VisitU64(u) ==
    CASE u = 1 -> Ok("High")
      [] u = 0 -> Ok("Low")
      [] OTHER -> Err("unknown_variant")

\* impl Deserialize for HighLowToggle: deserialize_any hands the value to
\* the visitor method of its kind (a non-negative integer to visit_u64, a
\* negative one to visit_i64); the visitor has no method for a float, null,
\* an array or an object, and serde's default gives "invalid type".
Deserialize(value) ==
    CASE value.t = "String" -> VisitStr(value.s)
      [] value.t = "Bool" -> VisitBool(value.b)
      [] value.t = "Number" /\ value.repr = "PosInt" -> VisitU64(value.n)
      [] value.t = "Number" /\ value.repr = "NegInt" -> VisitI64(value.n)
      [] OTHER -> Err("invalid_type")

\* ----------------------------------------------------------- output thread

\* A variant whose toggle always drives the pin high.
Drive_ToggleHigh(directive, level) ==
    CASE directive = "Low" -> "Low"
      [] directive = "High" -> "High"
      [] directive = "Toggle" -> "High"

\* OutputPin::set_low / set_high / toggle (toggle reads the level and drives
\* the other one).
Drive(directive, level) ==
    CASE directive = "Low" -> "Low"
      [] directive = "High" -> "High"
      [] directive = "Toggle" -> Invert(level)

\* A variant that drives the pin high when the value cannot be coerced.
ApplyEntry_ErrHigh(cfg, levels, key, value) ==
    IF key \in DOMAIN cfg
      THEN IF TryFrom(value).ok
             THEN [levels EXCEPT ![cfg[key].pin] = Drive(TryFrom(value).v, @)]
             ELSE [levels EXCEPT ![cfg[key].pin] = "High"]
      ELSE levels

\* One entry of the batch, as the loop body handles it: the levels after it.
ApplyEntry(cfg, levels, key, value) ==
    IF key \in DOMAIN cfg
      THEN IF TryFrom(value).ok
             THEN [levels EXCEPT ![cfg[key].pin] = Drive(TryFrom(value).v, @)]
             ELSE levels
      ELSE levels

Without(f, key) == [k \in DOMAIN f \ {key} |-> f[k]]

\* A variant that takes the newest batch.
CmdTake_Newest(ch) == ch[Len(ch)]

\* The batch blocking_recv takes from the channel.
CmdTake(ch) == Head(ch)

\* What is left in the channel after it.
CmdLeave(ch) == Tail(ch)

\* commands.blocking_recv() returns Some(set).
ActuatorRecv ==
    /\ Running
    /\ apc = "recv"
    /\ cmd_ch # <<>>
    /\ LET b == CmdTake(cmd_ch) IN
         /\ aset' = b.set
         /\ abatch' = b.set
         /\ aid' = b.id
    /\ alevel0' = outLevel
    /\ cmd_ch' = CmdLeave(cmd_ch)
    /\ apc' = "apply"
    /\ UNCHANGED <<cfgVars, pollerVars, data_ch, taskVars, busVars,
                   sessionVars, outLevel, mpc, coerceVars>>

\* One iteration of "for (set_key, set_val) in set": a HashMap is iterated
\* in no particular order.
ActuatorApply ==
    /\ Running
    /\ apc = "apply"
    /\ \E key \in DOMAIN aset :
         /\ outLevel' = ApplyEntry(outputs, outLevel, key, aset[key])
         /\ aset' = Without(aset, key)
    /\ UNCHANGED <<cfgVars, pollerVars, data_ch, taskVars, busVars,
                   sessionVars, cmd_ch, apc, abatch, alevel0, aid, mpc,
                   coerceVars>>

\* The for loop is over: back to blocking_recv.
ActuatorBatchDone ==
    /\ Running
    /\ apc = "apply"
    /\ DOMAIN aset = {}
    /\ apc' = "recv"
    /\ abatch' = EmptyBatch
    /\ alevel0' = outLevel
    /\ UNCHANGED <<cfgVars, pollerVars, data_ch, taskVars, busVars,
                   sessionVars, cmd_ch, outLevel, aset, aid, mpc, coerceVars>>

\* ------------------------------------------------------------ command path

\* config.mqtt.topic (its default), as path segments.
BaseTopic == <<"gpio2mqtt">>

\* config.mqtt.topic.to_string() + "/set"
SetTopic == BaseTopic \o <<"set">>

Topics == {SetTopic, BaseTopic, <<"other", "set">>}

\* The command batches the bus delivers: a High and a Low next to an unknown
\* name; a toggle next to a value try_from rejects; the empty object.
BatchSamples ==
    { ("out1" :> StringValue("on")) @@ ("nope" :> StringValue("off")) @@
      ("out2" :> IntValue(0)),
      ("out1" :> StringValue("toggle")) @@ ("out2" :> IntValue(7)),
      EmptyBatch }

\* A payload: bytes that are no JSON, JSON that is no object, or an object.
Payloads ==
    {[json |-> "invalid"], [json |-> "array"]} \cup
    { [json |-> "object", map |-> b] : b \in BatchSamples }

\* serde_json::from_slice::<SetType>(&p.payload).ok()
Decode(payload) ==
    IF payload.json = "object" THEN Some(payload.map) ELSE None

\* A variant that does not look at the topic.
Forwarded_AnyTopic(topic, payload) == Decode(payload)

\* What the handler of an incoming publish sends on the command channel.
Forwarded(topic, payload) ==
    IF topic = SetTopic THEN Decode(payload) ELSE None

\* A batch on its way to the output thread, with its ghost identity.
Tagged(set, id) == [id |-> id, set |-> set]

\* The handler of Ok(Event::Incoming(Packet::Publish(p))): cmd_tx.send(cmd)
\* .await queues the batch at once when the command channel has room and
\* waits otherwise.
HandlePublish(topic, payload) ==
    LET cmd == Forwarded(topic, payload) IN
    IF cmd = None
      THEN UNCHANGED <<cmd_ch, spc, scmd, cnext>>
      ELSE /\ cnext' = (cnext + 1) % CmdIdMod
           /\ IF HasRoom(cmd_ch, CmdChanCap)
                THEN /\ cmd_ch' = cmd_ch \o Some(Tagged(cmd[1], cnext))
                     /\ UNCHANGED <<spc, scmd>>
                ELSE /\ spc' = "forwarding"
                     /\ scmd' = Some(Tagged(cmd[1], cnext))
                     /\ UNCHANGED cmd_ch

\* poll returns the publish of payload on topic, which the bus delivered on
\* the established connection, and the Publish arm runs on it.
PollPublish(topic, payload) ==
    /\ Polling
    /\ net = "up"
    /\ HandlePublish(topic, payload)
    /\ UNCHANGED <<cfgVars, pollerVars, data_ch, taskVars, busVars,
                   actuatorVars, mpc, coerceVars>>

\* The bus delivers any of the sampled publishes.
PollIncomingPublish ==
    \E topic \in Topics, payload \in Payloads : PollPublish(topic, payload)

\* cmd_tx.send(cmd).await completes once the output thread has made room.
CmdSendResume ==
    /\ mpc = "mqtt"
    /\ spc = "forwarding"
    /\ HasRoom(cmd_ch, CmdChanCap)
    /\ cmd_ch' = cmd_ch \o scmd
    /\ scmd' = None
    /\ spc' = "poll"
    /\ UNCHANGED <<cfgVars, pollerVars, data_ch, taskVars, busVars, cnext,
                   actuatorVars, mpc, coerceVars>>

\* ----------------------------------------------------------------- startup

\* The ways a HashMap with the keys S is iterated.
Orders(S) ==
    { f \in [1 .. Cardinality(S) -> S] :
        \A a, b \in 1 .. Cardinality(S) : a # b => f[a] # f[b] }

\* "if !pins.insert(&pin) { return Err(..) }" over the pin numbers in pinSeq,
\* with the set seen so far: the set after them, or the pin found twice.
RECURSIVE InsertPins(_, _)
InsertPins(pinSeq, seen) ==
    IF pinSeq = <<>> THEN Ok(seen)
    ELSE IF Head(pinSeq) \in seen THEN Err(Head(pinSeq))
    ELSE InsertPins(Tail(pinSeq), seen \cup {Head(pinSeq)})

\* format!("Duplicate use of pin {}", pin)
DuplicateUse(pin) == [msg |-> "Duplicate use of pin", pin |-> pin]

\* A variant that checks the outputs against a set of their own.
SeenForOutputs_Fresh(seen) == {}

\* The set the loop over the outputs inserts into: the one the loop over the
\* inputs filled.
SeenForOutputs(seen) == seen

\* Config::validate, the inputs iterated in the order io and the outputs in
\* the order oo.
ValidateRun(ins, outs, io, oo) ==
    LET r1 == InsertPins([i \in 1 .. Len(io) |-> ins[io[i]]], {}) IN
    IF ~r1.ok THEN Err(DuplicateUse(r1.v))
    ELSE LET r2 == InsertPins([i \in 1 .. Len(oo) |-> outs[oo[i]].pin],
                              SeenForOutputs(r1.v)) IN
         IF ~r2.ok THEN Err(DuplicateUse(r2.v))
         ELSE Ok([inputs |-> ins, outputs |-> outs])

\* The configurations read from the file, valid or not: those of the tests
\* and others with a pin used twice.
CandidateInputs ==
    InputConfigs \cup
    { ("in1" :> 23) @@ ("in2" :> 23),
      "in1" :> 24,
      ("in1" :> 25) @@ ("in2" :> 24) }

CandidateOutputs ==
    OutputConfigs \cup
    { [n \in {} |-> 0],
      ("out1" :> [pin |-> 25, default |-> "High"]) @@
      ("out2" :> [pin |-> 25, default |-> "None"]),
      "out1" :> [pin |-> 24, default |-> "None"] }

\* The sets of pins that are in use by someone else.
BusySets == { {}, {23}, {26}, {24, 25} }

\* config::get in main: validate the configuration; on Err main prints it
\* and calls std::process::exit(1).
ConfigValidate ==
    /\ mpc = "config"
    /\ \E io \in Orders(DOMAIN inputs), oo \in Orders(DOMAIN outputs) :
         LET r == ValidateRun(inputs, outputs, io, oo) IN
         /\ vres' = Some(r)
         /\ mpc' = IF r.ok THEN "setup_inputs" ELSE "exited"
    /\ UNCHANGED <<inputs, outputs, busy, creds, pollerVars, data_ch,
                   taskVars, busVars, sessionVars, cmd_ch, actuatorVars,
                   coerceVars>>

\* setup_inputs: gpio.get(pin).expect(..) for every input, then the input
\* thread is spawned.  A pin that is not available panics main.
MainSetupInputs ==
    /\ mpc = "setup_inputs"
    /\ IF PinNumbers(inputs) \cap busy # {}
         THEN /\ mpc' = "panicked"
              /\ UNCHANGED ppc
         ELSE /\ mpc' = "setup_outputs"
              /\ ppc' = "wait"
    /\ UNCHANGED <<cfgVars, inLevel, edges, pevent, pdata, nextId, data_ch,
                   taskVars, busVars, sessionVars, cmd_ch, actuatorVars,
                   coerceVars>>

\* into_output_high / into_output_low / into_output of one pin: the level
\* it is driven to (into_output leaves the level as it is).
DefaultLevel(output, level) ==
    IF output.default = "None" THEN level ELSE output.default

\* The levels after the outputs named in nameSeq were taken, one by one,
\* up to the first that is not available.
RECURSIVE AcquireOutputs(_, _, _, _)
AcquireOutputs(cfg, nameSeq, unavailable, levels) ==
    IF nameSeq = <<>> THEN Ok(levels)
    ELSE LET output == cfg[Head(nameSeq)] IN
         IF output.pin \in unavailable THEN Err(levels)
         ELSE AcquireOutputs(cfg, Tail(nameSeq), unavailable,
                  [levels EXCEPT ![output.pin] =
                       DefaultLevel(output, levels[output.pin])])

\* setup_outputs: gpio.get(pin)? and into_output* for every output, then
\* the output thread is spawned; main goes on to call start_mqtt.  A pin
\* that is not available gives Err, and the unwrap in main panics.
MainSetupOutputs ==
    /\ mpc = "setup_outputs"
    /\ \E oo \in Orders(DOMAIN outputs) :
         LET r == AcquireOutputs(outputs, oo, busy, outLevel) IN
         /\ outLevel' = r.v
         /\ alevel0' = r.v
         /\ IF r.ok
              THEN /\ mpc' = "start_mqtt"
                   /\ apc' = "recv"
              ELSE /\ mpc' = "panicked"
                   /\ UNCHANGED apc
    /\ UNCHANGED <<cfgVars, pollerVars, data_ch, taskVars, busVars,
                   sessionVars, cmd_ch, aset, abatch, aid, coerceVars>>

\* Where main is after the first lines of start_mqtt:
\* set_credentials(config.mqtt.username.unwrap(), ..password.unwrap())
\* panics when the configuration gives no credentials; with them the client
\* is made, the publish task spawned and the loop entered.
AfterCredentials(given) == IF given THEN "mqtt" ELSE "panicked"

\* start_mqtt up to its loop.
MainStartMqtt ==
    /\ mpc = "start_mqtt"
    /\ mpc' = AfterCredentials(creds)
    /\ UNCHANGED <<cfgVars, pollerVars, data_ch, taskVars, busVars,
                   sessionVars, cmd_ch, actuatorVars, coerceVars>>

\* The process at the start of main: the configuration file read, nothing
\* validated, acquired or started.
InitStart ==
    /\ inputs \in CandidateInputs
    /\ outputs \in CandidateOutputs
    /\ vres = None
    /\ busy \in BusySets
    /\ creds \in BOOLEAN
    /\ inLevel \in [PinNumbers(inputs) -> Levels]
    /\ outLevel \in [OutPinNumbers(outputs) -> Levels]
    /\ edges = 0
    /\ ppc = "unstarted"
    /\ pevent = [kind |-> "none", pin |-> 0, level |-> "Low"]
    /\ pdata = None
    /\ nextId = 0
    /\ data_ch = <<>>
    /\ tpc = "recv"
    /\ tmsg = None
    /\ pubId = IdMod - 1
    /\ requests = 0
    /\ net = "down"
    /\ subscribed = FALSE
    /\ retried = FALSE
    /\ refused = FALSE
    /\ everReady = FALSE
    /\ waited = TRUE
    /\ spc = "poll"
    /\ scmd = None
    /\ cnext = 0
    /\ cmd_ch = <<>>
    /\ apc = "unstarted"
    /\ aset = EmptyBatch
    /\ abatch = EmptyBatch
    /\ alevel0 = outLevel
    /\ aid = CmdIdMod - 1
    /\ mpc = "config"
    /\ raw = NullValue
    /\ res = None
    /\ des = None

\* main from its start up to the call of start_mqtt, with the input thread
\* running as soon as it is spawned.
NextStartup ==
    \/ ConfigValidate
    \/ MainSetupInputs
    \/ MainSetupOutputs
    \/ MainStartMqtt
    \/ PollerEdge
    \/ PollerTimeout
    \/ PollerPollError
    \/ PollerSend

SpecStartup == InitStart /\ [][NextStartup]_vars

\* ------------------------------------------------------------------- start

\* into_output_high / into_output_low / into_output (level left as found).
InitialOutLevels(cfg) ==
    { f \in [OutPinNumbers(cfg) -> Levels] :
        \A n \in DOMAIN cfg :
            /\ cfg[n].default = "High" => f[cfg[n].pin] = "High"
            /\ cfg[n].default = "Low" => f[cfg[n].pin] = "Low" }

\* main up to start_mqtt's loop: validated configuration, every pin
\* acquired, both channels empty, both threads started, the event loop not
\* yet connected.
InitBridge ==
    /\ inputs \in InputConfigs
    /\ outputs \in OutputConfigs
    /\ Validate(inputs, outputs)
    /\ vres = Some(Ok([inputs |-> inputs, outputs |-> outputs]))
    /\ busy = {}
    /\ creds = TRUE
    /\ inLevel \in [PinNumbers(inputs) -> Levels]
    /\ outLevel \in InitialOutLevels(outputs)
    /\ edges = 0
    /\ ppc = "wait"
    /\ pevent = [kind |-> "none", pin |-> 0, level |-> "Low"]
    /\ pdata = None
    /\ nextId = 0
    /\ data_ch = <<>>
    /\ tpc = "recv"
    /\ tmsg = None
    /\ pubId = IdMod - 1
    /\ requests = 0
    /\ net = "down"
    /\ subscribed = FALSE
    /\ retried = FALSE
    /\ refused = FALSE
    /\ everReady = FALSE
    /\ waited = TRUE
    /\ spc = "poll"
    /\ scmd = None
    /\ cnext = 0
    /\ cmd_ch = <<>>
    /\ apc = "recv"
    /\ aset = EmptyBatch
    /\ abatch = EmptyBatch
    /\ alevel0 = outLevel
    /\ aid = CmdIdMod - 1
    /\ mpc = "mqtt"

Init ==
    /\ InitBridge
    /\ raw = NullValue
    /\ res = None
    /\ des = None

\* The command path is looked at under a configuration without inputs: no
\* edges, and the heartbeat is the empty snapshot.
InitCommands ==
    /\ Init
    /\ DOMAIN inputs = {}

\* The telemetry path: input thread, publish task, bus session, main.
NextTelemetry ==
    \/ PollerEdge
    \/ PollerTimeout
    \/ PollerPollError
    \/ PollerSend
    \/ TaskRecvPublish
    \/ RequestSendResume
    \/ PollConnAck
    \/ PollRetryableError
    \/ SleepDone
    \/ PollRefused
    \/ PollOutgoing
    \/ PollOtherError
    \/ MainJoinInputs
    \/ ActuatorClosed

SpecTelemetry == Init /\ [][NextTelemetry]_vars


\* The telemetry path on a bus that accepts the connection and stays up, with
\* an input thread whose polls do not fail.  A thread that can take a step
\* takes it: the input thread comes back from poll_interrupts (on an edge, or
\* else on the timeout) and from blocking_send once there is room, the
\* runtime runs the publish task and the session when they are ready.  When
\* the environment produces an edge is up to the environment.
NextHeartbeat ==
    \/ PollerEdge
    \/ PollerTimeout
    \/ PollerSend
    \/ TaskRecvPublish
    \/ RequestSendResume
    \/ PollConnAck
    \/ PollOutgoing

SpecHeartbeat ==
    /\ Init
    /\ [][NextHeartbeat]_vars
    /\ WF_vars(PollerTimeout)
    /\ WF_vars(PollerSend)
    /\ WF_vars(TaskRecvPublish)
    /\ WF_vars(RequestSendResume)
    /\ WF_vars(PollConnAck)
    /\ WF_vars(PollOutgoing)


\* The command path with all of the bridge running: the input thread, which
\* without inputs sends the empty snapshot on every timeout, the publish
\* task, the bus session, the command channel and the output thread.  The
\* polls of the input thread do not fail; the bus refuses the connection or
\* accepts it, and then stays up.
NextCommands ==
    \/ PollerTimeout
    \/ PollerSend
    \/ TaskRecvPublish
    \/ RequestSendResume
    \/ PollConnAck
    \/ PollRefused
    \/ PollOutgoing
    \/ PollIncomingPublish
    \/ CmdSendResume
    \/ ActuatorRecv
    \/ ActuatorApply
    \/ ActuatorBatchDone
    \/ ActuatorClosed

SpecCommands == InitCommands /\ [][NextCommands]_vars


\* ------------------------------------------------- the coercion on its own

StringSamples ==
    { "on", "high", "1", "off", "low", "0", "toggle",
      "ON", "High", "Toggle", "true", "false", "", "2", "yes", " on", "onn" }

\* Floats, in tenths: 1.0, 0.0, 0.5, -1.0, 7.5
FloatSamples == {10, 0, 5, -10, 75}

RawValues ==
    { BoolValue(b) : b \in BOOLEAN } \cup
    { IntValue(i) : i \in -MaxNum .. MaxNum } \cup
    { FloatValue(f) : f \in FloatSamples } \cup
    { StringValue(s) : s \in StringSamples } \cup
    { NullValue, ArrayValue, ObjectValue }

InitCoerce ==
    /\ InitBridge
    /\ DOMAIN inputs = {}
    /\ \A p \in DOMAIN outLevel : outLevel[p] = "Low"
    /\ raw \in RawValues
    /\ res = None
    /\ des = None

\* set_val.try_into()
CoerceApply ==
    /\ res = None
    /\ res' = Some(TryFrom(raw))
    /\ UNCHANGED <<cfgVars, pollerVars, data_ch, taskVars, busVars,
                   sessionVars, cmd_ch, actuatorVars, mpc, raw, des>>

\* serde_json::from_value::<HighLowToggle>(raw)
CoerceDeserialize ==
    /\ des = None
    /\ des' = Some(Deserialize(raw))
    /\ UNCHANGED <<cfgVars, pollerVars, data_ch, taskVars, busVars,
                   sessionVars, cmd_ch, actuatorVars, mpc, raw, res>>

\* The next value to try.
CoerceAnother ==
    /\ res # None
    /\ des # None
    /\ \E v \in RawValues : raw' = v
    /\ res' = None
    /\ des' = None
    /\ UNCHANGED <<cfgVars, pollerVars, data_ch, taskVars, busVars,
                   sessionVars, cmd_ch, actuatorVars, mpc>>

NextCoerce ==
    \/ CoerceApply
    \/ CoerceDeserialize
    \/ CoerceAnother

SpecCoerce == InitCoerce /\ [][NextCoerce]_vars


\* ================================================================== claims

\* The session is Ready: connect acknowledged and the subscribe issued.
Ready == net = "up" /\ subscribed /\ spc # "aborted"

\* C1: after a retryable bus error, once the bus accepts the connection the
\* session reaches Ready, whatever telemetry was produced meanwhile.  A
\* session that is to reach Ready is never held in subscribe().await with the
\* request queue full and the event loop, which alone empties it, not polled
\* (stated for a session that has not subscribed before, so that the queue
\* holds telemetry publishes only).
C1_RetryReachesReady ==
    (retried /\ ~everReady /\ spc = "subscribing") =>
        (QueueHasRoom(requests) \/ ENABLED PollOutgoing)

\* C2: a refusal takes the session to Aborted, Aborted is terminal, and
\* after it nothing more happens on the bus side: no connection attempt, no
\* poll, no request.
C2_RefusalAbortsOnce ==
    [][ /\ refused' => (spc' = "aborted" /\ mpc' # "mqtt")
        /\ spc = "aborted" =>
             /\ spc' = "aborted"
             /\ mpc' # "mqtt"
             /\ UNCHANGED <<busVars, scmd, cmd_ch, taskVars>> ]_vars

C2_Witness ==
    /\ spc = "aborted"
    /\ refused
    /\ retried
    /\ requests > 0
    /\ Len(data_ch) = DataChanCap

\* The process has ended.
Terminated == mpc \in {"exited", "panicked"}

\* C3: once the session is Aborted the bridge shuts down: main finishes its
\* joins and the process terminates.  Then the bridge never stands still,
\* Aborted, with the process still there.
C3_AbortedTerminates ==
    (spc = "aborted" /\ ~ENABLED NextTelemetry) => Terminated

\* The telemetry messages on their way to a publish, oldest first.
InFlight == tmsg \o data_ch \o pdata

\* C4: publishes are issued in the order the messages were sent: the messages
\* not yet published are, oldest first, the successors of the last one a
\* publish was issued for.
C4_PublishInSendOrder ==
    \A i \in 1 .. Len(InFlight) : InFlight[i].id = (pubId + i) % IdMod

C4_Witness ==
    /\ pubId = 1
    /\ tpc = "publish"
    /\ Len(data_ch) = DataChanCap
    /\ ppc = "send"
    /\ requests = RequestCap

\* C5: the message built on a heartbeat timeout has exactly the configured
\* input names as keys, each with is_high() of its pin.
C5_TimeoutSnapshot ==
    (ppc = "send" /\ pevent.kind = "timeout") =>
        /\ DOMAIN pdata[1].data = DOMAIN inputs
        /\ \A n \in DOMAIN inputs :
             pdata[1].data[n] = (inLevel[inputs[n]] = "High")

C5_Witness ==
    /\ ppc = "send"
    /\ pevent.kind = "timeout"
    /\ DOMAIN inputs = {"in1", "in2"}
    /\ pdata[1].data = ("in1" :> TRUE) @@ ("in2" :> FALSE)
    /\ edges > 0

\* C6: the message built for an edge on pin p has one entry, under the
\* configured name of p, true iff the new level is high.
C6_EdgeDelta ==
    (ppc = "send" /\ pevent.kind = "edge") =>
        \E n \in DOMAIN inputs :
            /\ inputs[n] = pevent.pin
            /\ DOMAIN pdata[1].data = {n}
            /\ pdata[1].data[n] = (pevent.level = "High")
            /\ inLevel[pevent.pin] = pevent.level

C6_Witness ==
    /\ ppc = "send"
    /\ pevent = [kind |-> "edge", pin |-> 24, level |-> "High"]
    /\ pdata[1].data = ("in2" :> TRUE)

\* The entries of the batch in hand that the loop has visited.
Visited == DOMAIN abatch \ DOMAIN aset

\* The entry under key names output pin q and its value coerces.
ValidFor(key, q) ==
    /\ key \in DOMAIN outputs
    /\ outputs[key].pin = q
    /\ TryFrom(abatch[key]).ok

\* C7: an entry with an unknown name or an uncoercible value writes nothing:
\* an output pin that no valid visited entry names is as it was when the
\* batch arrived; the valid entries are applied; the thread goes on until
\* the channel is closed.
C7_BadEntrySkipped ==
    /\ apc = "apply" =>
         \A q \in OutPinNumbers(outputs) :
             IF \E key \in Visited : ValidFor(key, q)
               THEN \A key \in Visited :
                        ValidFor(key, q) =>
                            outLevel[q] =
                                Drive(TryFrom(abatch[key]).v, alevel0[q])
               ELSE outLevel[q] = alevel0[q]
    /\ apc = "done" => spc = "aborted"

C7_Witness ==
    /\ apc = "apply"
    /\ DOMAIN aset = {}
    /\ abatch = ("out1" :> StringValue("on")) @@ ("nope" :> StringValue("off"))
                  @@ ("out2" :> IntValue(0))
    /\ alevel0[25] = "Low"
    /\ outLevel[25] = "High"
    /\ Len(cmd_ch) = CmdChanCap

\* C8: a visited entry for a known pin with a value that coerces leaves the
\* pin high for High, low for Low, and at the inverse of its level before
\* the write for Toggle.
C8_DirectiveApplied ==
    apc = "apply" =>
        \A key \in Visited :
            (key \in DOMAIN outputs /\ TryFrom(abatch[key]).ok) =>
                LET q == outputs[key].pin
                    d == TryFrom(abatch[key]).v
                IN  /\ d = "High" => outLevel[q] = "High"
                    /\ d = "Low" => outLevel[q] = "Low"
                    /\ d = "Toggle" => outLevel[q] = Invert(alevel0[q])

C8_Witness ==
    /\ apc = "apply"
    /\ DOMAIN aset = {}
    /\ abatch = ("out1" :> StringValue("toggle")) @@ ("out2" :> IntValue(7))
    /\ alevel0[25] = "Low"
    /\ outLevel[25] = "High"

\* The directive section 4.1 gives for a string.
StringTable(s) ==
    CASE s \in {"on", "high", "1"} -> Ok("High")
      [] s \in {"off", "low", "0"} -> Ok("Low")
      [] s = "toggle" -> Ok("Toggle")
      [] OTHER -> Err("string")

\* C9: the coercion of a string is the exact, case-sensitive table: "on",
\* "high", "1" are High; "off", "low", "0" are Low; "toggle" is Toggle; any
\* other string is an error.
C9_StringCoercion ==
    (res # None /\ raw.t = "String") => res[1] = StringTable(raw.s)

\* C10: the coercion of a value that is no string: true is High, false is
\* Low, the integer 1 is High, the integer 0 is Low, any other number is an
\* error, null, arrays and objects are errors; it is never Toggle.
C10_NonStringCoercion ==
    (res # None /\ raw.t # "String") =>
        /\ raw = BoolValue(TRUE) => res[1] = Ok("High")
        /\ raw = BoolValue(FALSE) => res[1] = Ok("Low")
        /\ raw = IntValue(1) => res[1] = Ok("High")
        /\ raw = IntValue(0) => res[1] = Ok("Low")
        /\ (raw.t = "Number" /\ raw \notin {IntValue(0), IntValue(1)}) =>
               ~res[1].ok
        /\ raw.t \in {"Null", "Array", "Object"} => ~res[1].ok
        /\ res[1] # Ok("Toggle")

C10_Witness ==
    /\ raw = IntValue(7)
    /\ res = Some(Err("number"))

\* C11: telemetry is never dropped under back-pressure: the telemetry channel
\* never holds more than DataChanCap messages; the messages built and not yet
\* published are exactly those in flight (none lost, none twice); and a
\* message waiting in the channel is later handed to the publish path, also
\* while the session is slow or disconnected: the bridge never stands still
\* with a message left in the channel (stated for a running input thread and
\* a session that has retried, is not Aborted and has not subscribed before).
C11_TelemetryNotDropped ==
    /\ Len(data_ch) <= DataChanCap
    /\ (nextId - 1 - pubId) % IdMod = Len(InFlight) % IdMod
    /\ (data_ch # <<>> /\ ppc # "panicked" /\ spc # "aborted" /\ retried /\
        ~everReady) =>
           ENABLED NextTelemetry

\* The command batches forwarded and not yet taken by the output thread,
\* oldest first.
CmdInFlight == cmd_ch \o scmd

\* C12: command batches reach the output thread in the order the session
\* decoded them, none lost and none twice, also when the command channel is
\* full: the batches under way are, oldest first, the successors of the one
\* the output thread took last, up to the one decoded last.  They are applied
\* as whole batches: the output thread takes the next batch only when every
\* entry of the one in hand has been visited, and it takes all of it.
C12_BatchesInOrder ==
    /\ [](/\ \A i \in 1 .. Len(CmdInFlight) :
                CmdInFlight[i].id = (aid + i) % CmdIdMod
          /\ cnext = (aid + Len(CmdInFlight) + 1) % CmdIdMod
          /\ Len(cmd_ch) <= CmdChanCap)
    /\ [][aid' # aid =>
            /\ DOMAIN aset = {}
            /\ aid' = (aid + 1) % CmdIdMod
            /\ aset' = abatch'
            /\ cmd_ch # <<>> /\ abatch' = Head(cmd_ch).set]_vars

C12_Witness ==
    /\ apc = "apply"
    /\ aid = 1
    /\ DOMAIN aset # {} /\ aset # abatch
    /\ Len(cmd_ch) = CmdChanCap
    /\ scmd # None
    /\ spc = "forwarding"

\* C13: the session forwards only the payloads of publishes on the command
\* topic that decode as a batch: the handling of such a publish adds exactly
\* its batch, last, to the batches under way; the handling of a publish on
\* another topic, or of a payload on the command topic that does not decode,
\* puts nothing on the command channel and leaves the connection as it is:
\* the session polls on, connected.  (Looked at for the steps that change
\* the session or the command channel and leave the threads, the publish task
\* and the bus client as they are: every handling of a publish that changes
\* anything is such a step.)
C13_OnlyCommandsForwarded ==
    [][(/\ <<sessionVars, cmd_ch>>' # <<sessionVars, cmd_ch>>
        /\ UNCHANGED <<pollerVars, data_ch, taskVars, busVars, actuatorVars>>) =>
         \A topic \in Topics, payload \in Payloads :
             PollPublish(topic, payload) =>
                 IF topic = SetTopic /\ payload.json = "object"
                   THEN /\ Len(CmdInFlight') = Len(CmdInFlight) + 1
                        /\ SubSeq(CmdInFlight', 1, Len(CmdInFlight)) =
                               CmdInFlight
                        /\ CmdInFlight'[Len(CmdInFlight')].set = payload.map
                        /\ UNCHANGED busVars
                   ELSE /\ UNCHANGED <<cmd_ch, scmd, cnext, busVars, mpc>>
                        /\ spc' = "poll"
                        /\ net' = "up"]_vars

\* The empty object was published on the command topic, decoded and handed
\* to the command channel, which was full.
C13_Witness ==
    /\ net = "up"
    /\ subscribed
    /\ Len(cmd_ch) = CmdChanCap
    /\ spc = "forwarding"
    /\ scmd # None
    /\ scmd[1].set = EmptyBatch

\* The input thread has built a full snapshot and is sending it.
SnapshotEmitted == ppc = "send" /\ pevent.kind = "timeout"

\* C14: from any point of an execution in which the telemetry channel keeps
\* being drained, the input thread eventually emits a full snapshot, whatever
\* edges occur on the input pins.
C14_HeartbeatEventually ==
    ([]<>HasRoom(data_ch, DataChanCap)) => []<>SnapshotEmitted

\* The configured pins that use pin number p.
PinUses(p) ==
    { <<"input", n>> : n \in { k \in DOMAIN inputs : inputs[k] = p } } \cup
    { <<"output", n>> : n \in { k \in DOMAIN outputs : outputs[k].pin = p } }

AllPins == PinNumbers(inputs) \cup OutPinNumbers(outputs)

\* C15: validation accepts a configuration if and only if no pin number is
\* used by two configured pins, inputs and outputs together; an accepted
\* configuration is returned unchanged, a rejected one gives "Duplicate use
\* of pin" for a pin that is used twice.
C15_ValidateIffDistinct ==
    vres # None =>
        /\ vres[1].ok <=> \A p \in AllPins : Cardinality(PinUses(p)) <= 1
        /\ vres[1].ok =>
               vres[1].v = [inputs |-> inputs, outputs |-> outputs]
        /\ ~vres[1].ok =>
               /\ vres[1].v.msg = "Duplicate use of pin"
               /\ Cardinality(PinUses(vres[1].v.pin)) >= 2

C15_Witness ==
    /\ vres # None
    /\ ~vres[1].ok
    /\ vres[1].v.pin = 24
    /\ AllPins = {24}
    /\ mpc = "exited"

\* C16: deserializing gives High for the strings "high", "on", "1", the
\* integer 1 and true; Low for the strings "low", "off", "0", the integer 0
\* and false; Toggle for the string "toggle"; an error for every other
\* integer and every other string.
C16_DeserializeTable ==
    des # None =>
        /\ raw \in { StringValue("high"), StringValue("on"), StringValue("1"),
                     IntValue(1), BoolValue(TRUE) } => des[1] = Ok("High")
        /\ raw \in { StringValue("low"), StringValue("off"), StringValue("0"),
                     IntValue(0), BoolValue(FALSE) } => des[1] = Ok("Low")
        /\ raw = StringValue("toggle") => des[1] = Ok("Toggle")
        /\ (raw.t = "Number" /\ raw.repr # "Float" /\ raw.n \notin {0, 1}) =>
               ~des[1].ok
        /\ (raw.t = "String" /\
            raw.s \notin {"high", "on", "1", "low", "off", "0", "toggle"}) =>
               ~des[1].ok

C16_Witness ==
    /\ raw = StringValue("1")
    /\ des = Some(Ok("High"))
    /\ res = Some(Err("string"))

\* The session is Connecting: the poll it is in makes a connection attempt.
Connecting == Polling /\ net = "down"

\* C17: the session enters Connecting only on start or after a RetryWait:
\* after any connection error that does not abort it, the 2 second wait comes
\* before the next connection attempt.
C17_WaitBeforeReconnect == Connecting => waited

\* C18: after every connect acknowledgement, also after a reconnect, the
\* session issues a subscribe before it handles any further bus event: on an
\* established connection the session is either still in the subscribe of
\* that connection or the subscribe has been issued, and it polls only when
\* it has been.
C18_SubscribedWhenReady ==
    /\ net = "up" => (subscribed <=> spc # "subscribing")
    /\ (Polling /\ net = "up") => subscribed
    /\ subscribed => (net = "up" /\ everReady)

C18_Witness ==
    /\ Polling
    /\ net = "up"
    /\ subscribed
    /\ retried
    /\ requests = 2
    /\ nextId = 0
    /\ pdata = None

\* C19: every message placed on a channel is non-empty: every telemetry
\* message in the telemetry channel has at least one entry, and so has every
\* command batch in the command channel.
C19_MessagesNonEmpty ==
    /\ \A i \in 1 .. Len(data_ch) : DOMAIN data_ch[i].data # {}
    /\ \A i \in 1 .. Len(cmd_ch) : DOMAIN cmd_ch[i].set # {}

\* Acquiring a configured pin has failed and ended main.
AcquireFailed == mpc = "panicked" /\ AllPins \cap busy # {}

\* C20: when acquiring a configured pin fails at startup, no component has
\* begun running: the input thread and the output thread have not been
\* started, no telemetry has been built or sent, and the session has made no
\* connection attempt.
C20_NoPartialStart ==
    AcquireFailed =>
        /\ ppc = "unstarted"
        /\ apc = "unstarted"
        /\ pdata = None /\ data_ch = <<>> /\ nextId = 0
        /\ net = "down" /\ requests = 0 /\ waited /\ spc = "poll"

\* The configuration was accepted and every configured pin was opened.
Started == mpc \in {"start_mqtt", "mqtt", "join_h1", "panicked"} /\
           AllPins \cap busy = {}

\* C21: only configuration and hardware-acquisition failures halt the
\* process: once validation has accepted the configuration, with or without
\* bus credentials, and all pins are opened, neither the process nor one of
\* its components has crashed.
C21_NoCrashOnceStarted ==
    Started => (mpc # "panicked" /\ ppc # "panicked")

\* C22: the session and the publish task never deadlock on the request
\* queue: whenever the session, handling a connect acknowledgement, is in
\* subscribe().await, the subscribe is eventually queued and the session
\* polls again, also when the publish task has filled the queue before.
C22_SubscribeCompletes ==
    (spc = "subscribing") ~> (spc = "poll" /\ subscribed)

====
